---- MODULE Spec2Model ----
(***************************************************************************)
(* Model of the GT911 touch driver (src/src/lib.rs): the blocking          *)
(* controller Gt911Blocking and the async controller Gt911, run side by    *)
(* side against one device whose responses they share, one call at a time. *)
(***************************************************************************)
EXTENDS Integers, Sequences, FiniteSets, TLC

VARIABLES
    i2c_addr,   \* [Ctrl -> byte]: the handle's only field
    op,         \* the operation of the current call
    pc,         \* [Ctrl -> position of the controller inside the call]
    bus,        \* [Ctrl -> the bus transactions the call has issued so far]
    buf,        \* [Ctrl -> contents of the local array `read` after the last read]
    num,        \* [Ctrl -> num_touch_points]
    val,        \* [Ctrl -> the local `point` (Option as a sequence) / `points`]
    result,     \* [Ctrl -> what the call returned]
    outcomes,   \* outcome of the k-th bus transaction of the call ("ok" or an error)
    dev,        \* the device registers read so far during the call
    probe,      \* input and output of decode_point run on its own (SpecDecode)
    scratch,    \* the caller's array `buf` of the async example (tester.rs)
    hist,       \* history: the address given at construction, an earlier init call
    sched       \* the executor: the task that runs, the task that waits (SpecTasks)

vars == <<i2c_addr, op, pc, bus, buf, num, val, result, outcomes, dev, probe,
          scratch, hist, sched>>

----------------------------------------------------------------------------
(* Program constants *)

GT911_I2C_ADDR_BA == 93
GT911_PRODUCT_ID_REG == 33088
GT911_TOUCHPOINT_STATUS_REG == 33102
GT911_TOUCHPOINT_1_REG == 33103
GT911_COMMAND_REG == 32832
MAX_NUM_TOUCHPOINTS == 5
TOUCHPOINT_ENTRY_LEN == 8

(* Bounds of the model *)

\* number of distinct sample records the device may hold in a touchpoint slot
MaxRecs == 3

----------------------------------------------------------------------------
(* Types *)

Blocking == "blocking"
Async == "async"
Ctrl == {Blocking, Async}

Byte == 0..255

\* transport errors (the transport's own error type E)
Errs == {"nack", "arbitration_loss"}
Outcomes == {"ok"} \cup Errs

\* the addresses a handle is constructed with: the default, and 0x14 given to new
Addrs == {GT911_I2C_ADDR_BA, 20}

Ops == {"init", "get_touch", "get_multi_touch"}

\* Result<T, Error<E>>
Pending == [tag |-> "Pending", kind |-> "none", e |-> "none", val |-> <<>>]
OkR(v) == [tag |-> "Ok", kind |-> "none", e |-> "none", val |-> v]
ErrR(kind, e) == [tag |-> "Err", kind |-> kind, e |-> e, val |-> <<>>]

----------------------------------------------------------------------------
(* Integer helpers *)

Min(a, b) == IF a <= b THEN a ELSE b

RECURSIVE BitAnd(_, _)
BitAnd(a, b) ==
    IF a = 0 \/ b = 0 THEN 0
    ELSE (a % 2) * (b % 2) + 2 * BitAnd(a \div 2, b \div 2)

\* mutant: the register address goes out low byte first
to_le_bytes(register) == <<register % 256, register \div 256>>

\* u16::to_be_bytes
to_be_bytes(register) == <<register \div 256, register % 256>>

\* mutant: the bytes are taken in big-endian order
from_be_bytes(bytes) == (256 * bytes[1] + bytes[2]) % 65536

\* u16::from_le_bytes
from_le_bytes(bytes) == (bytes[1] + 256 * bytes[2]) % 65536

RECURSIVE Flatten(_)
Flatten(recs) == IF recs = <<>> THEN <<>> ELSE Head(recs) \o Flatten(Tail(recs))

Zeros(n) == [i \in 1..n |-> 0]

----------------------------------------------------------------------------
(* The device on the other side of the bus *)

\* sample touchpoint records: 8 bytes each, all different, with high bytes set
SampleRecord(i) ==
    << (i - 1) % 256, (85 * i) % 256, (3 * i) % 256, (113 * i) % 256,
       i % 256, (51 * i) % 256, (7 * i) % 256, (255 * i) % 256 >>
Records == {SampleRecord(i) : i \in 1..MaxRecs}

\* bytes the product-ID register may hold: NUL, '1', '9', an invalid byte,
\* and the two bytes of a valid 2-byte UTF-8 character
IdBytes == {0, 49, 57, 255, 195, 169}
IdSeqs == [1..4 -> IdBytes]

NoStatus == 0 - 1
\* latch: the device's ready latch, "set" or "clear" where the device is
\* modelled with its own state (SpecPoll), "untracked" where only what the
\* driver has read of it is
DevUnread == [status |-> NoStatus, id |-> <<>>, points |-> <<>>, latch |-> "untracked"]

\* how many touchpoint slots a read of len bytes at the first slot covers
SlotsFor(len) == Min((len + TOUCHPOINT_ENTRY_LEN - 1) \div TOUCHPOINT_ENTRY_LEN,
                     MAX_NUM_TOUCHPOINTS)

\* the device states after a read of len bytes at register: registers that
\* were not read before take any value, registers read before keep theirs
DevAfterRead(register, len) ==
    IF register = GT911_TOUCHPOINT_STATUS_REG
    THEN IF dev.status = NoStatus
         THEN {[dev EXCEPT !.status = s] : s \in Byte}
         ELSE {dev}
    ELSE IF register = GT911_PRODUCT_ID_REG
    THEN IF dev.id = <<>>
         THEN {[dev EXCEPT !.id = i] : i \in IdSeqs}
         ELSE {dev}
    ELSE IF Len(dev.points) >= SlotsFor(len)
         THEN {dev}
         ELSE {[dev EXCEPT !.points = dev.points \o ext] :
                  ext \in [1..(SlotsFor(len) - Len(dev.points)) -> Records]}

\* the device after transaction txn ended with outcome o, when txn is a
\* write: a write of 0 that reaches the status register clears the latch
DevAfterWrite(txn, o) ==
    IF /\ dev.latch # "untracked"
       /\ o = "ok"
       /\ 256 * txn.out[1] + txn.out[2] = GT911_TOUCHPOINT_STATUS_REG
       /\ txn.out[3] = 0
    THEN [dev EXCEPT !.latch = "clear", !.status = 0]
    ELSE dev

\* the bytes a read of len bytes at register returns from device state d
DevBytes(d, register, len) ==
    LET mem == IF register = GT911_TOUCHPOINT_STATUS_REG THEN <<d.status>>
               ELSE IF register = GT911_PRODUCT_ID_REG THEN d.id
               ELSE Flatten(d.points)
        padded == mem \o Zeros(len)
    IN  SubSeq(padded, 1, len)

\* The k-th transaction of the call ends with outcome o: the first controller
\* to get there draws it, the other controller is given the same one.
EnvOutcome(k, o) ==
    IF k <= Len(outcomes)
    THEN o = outcomes[k] /\ outcomes' = outcomes
    ELSE outcomes' = Append(outcomes, o)

----------------------------------------------------------------------------
(* Shared pure code *)

Point(track_id, x, y, area) ==
    [track_id |-> track_id, x |-> x, y |-> y, area |-> area]

decode_point(b) ==
    Point(b[1],
          from_le_bytes(<<b[2], b[3]>>),
          from_le_bytes(<<b[4], b[5]>>),
          from_le_bytes(<<b[6], b[7]>>))

IsCont(b) == b >= 128 /\ b <= 191

\* core::str::from_utf8(..).is_ok()
RECURSIVE from_utf8_ok(_)
from_utf8_ok(s) ==
    LET n == Len(s)
        b1 == s[1]
        Rest(k) == SubSeq(s, k + 1, n)
    IN  IF n = 0 THEN TRUE
        ELSE IF b1 <= 127 THEN from_utf8_ok(Rest(1))
        ELSE IF b1 >= 194 /\ b1 <= 223
             THEN n >= 2 /\ IsCont(s[2]) /\ from_utf8_ok(Rest(2))
        ELSE IF b1 >= 224 /\ b1 <= 239
             THEN /\ n >= 3
                  /\ IF b1 = 224 THEN s[2] >= 160 /\ s[2] <= 191
                     ELSE IF b1 = 237 THEN s[2] >= 128 /\ s[2] <= 159
                     ELSE IsCont(s[2])
                  /\ IsCont(s[3])
                  /\ from_utf8_ok(Rest(3))
        ELSE IF b1 >= 240 /\ b1 <= 244
             THEN /\ n >= 4
                  /\ IF b1 = 240 THEN s[2] >= 144 /\ s[2] <= 191
                     ELSE IF b1 = 244 THEN s[2] >= 128 /\ s[2] <= 143
                     ELSE IsCont(s[2])
                  /\ IsCont(s[3])
                  /\ IsCont(s[4])
                  /\ from_utf8_ok(Rest(4))
        ELSE FALSE

\* the bytes of the string literal "911\0"
ProductIdStr == <<57, 49, 49, 0>>

----------------------------------------------------------------------------
(* Gt911Blocking *)

\* mutant: every write goes to the default address, whatever the handle holds
Blocking_write_default_addr(register, value) ==
    LET r == to_be_bytes(register)
    IN  [kind |-> "write", addr |-> GT911_I2C_ADDR_BA,
         out |-> <<r[1], r[2], value>>, len |-> 0]

Blocking_write(register, value) ==
    LET r == to_be_bytes(register)
    IN  [kind |-> "write", addr |-> i2c_addr[Blocking],
         out |-> <<r[1], r[2], value>>, len |-> 0]

Blocking_read(register, len) ==
    [kind |-> "write_read", addr |-> i2c_addr[Blocking],
     out |-> to_be_bytes(register), len |-> len]

\* mutant: the clear goes to the command register, as the first write of init
Blocking_clear_status_to_command == Blocking_write(GT911_COMMAND_REG, 0)

\* mutant: the clear writes the ready bit back instead of 0
Blocking_clear_status_ready_bit == Blocking_write(GT911_TOUCHPOINT_STATUS_REG, 128)

\* self.write(i2c, GT911_TOUCHPOINT_STATUS_REG, 0): the status-clear write
Blocking_clear_status == Blocking_write(GT911_TOUCHPOINT_STATUS_REG, 0)

\* mutant: a transport error is swallowed
Blocking_map_err_swallowed(e) == OkR(<<>>)

\* mutant: a transport error is reported as "no new data"
Blocking_map_err_not_ready(e) == ErrR("NotReady", "none")

\* .map_err(Error::I2C)
Blocking_map_err(e) == ErrR("I2C", e)

\* mutant: the product id is read and not compared
Blocking_product_id_unchecked(read) == TRUE

\* mutant: only the three digits are compared
Blocking_product_id_prefix_ok(read) ==
    IF from_utf8_ok(read)
    THEN ~(SubSeq(read, 1, 3) # SubSeq(ProductIdStr, 1, 3))
    ELSE FALSE

\* the match on str::from_utf8(&read): TRUE when init goes on to the clear
Blocking_product_id_ok(read) ==
    IF from_utf8_ok(read)
    THEN ~(read # ProductIdStr)
    ELSE FALSE

\* mutant: the count is taken from the high nibble
Blocking_num_touch_points_high_nibble(status) ==
    IF BitAnd(status, 128) > 0
    THEN OkR(BitAnd(status, 240) \div 16)
    ELSE ErrR("NotReady", "none")

\* mutant: the ready flag is not looked at
Blocking_num_touch_points_unchecked(status) == OkR(BitAnd(status, 15))

\* get_num_touch_points, after the read: status byte to Result<usize, _>
Blocking_num_touch_points(status) ==
    LET ready == BitAnd(status, 128) > 0
        num_touch_points == BitAnd(status, 15)
    IN  IF ready THEN OkR(num_touch_points) ELSE ErrR("NotReady", "none")

\* assert!(num_touch_points <= MAX_NUM_TOUCHPOINTS)
Blocking_assert_count(n) == n <= MAX_NUM_TOUCHPOINTS

\* mutants: get_touch reads every reported record; get_multi_touch reads the
\* whole array whatever the count
Blocking_touch_read_len_all(n) == TOUCHPOINT_ENTRY_LEN * n
Blocking_multi_read_len_whole(n) == TOUCHPOINT_ENTRY_LEN * MAX_NUM_TOUCHPOINTS

\* the length of the slice handed to read by get_touch / get_multi_touch
Blocking_touch_read_len(n) == TOUCHPOINT_ENTRY_LEN
Blocking_multi_read_len(n) == TOUCHPOINT_ENTRY_LEN * n

\* read[..len] of the array [0u8; TOUCHPOINT_ENTRY_LEN * MAX_NUM_TOUCHPOINTS]:
\* a slice past the end of the array panics
Blocking_slice_in_bounds(len) == len <= TOUCHPOINT_ENTRY_LEN * MAX_NUM_TOUCHPOINTS

\* the for loop of get_multi_touch: decode and push, push(..).ok() dropping
\* what does not fit the capacity
Blocking_decode_points(read, n) ==
    LET all == [k \in 1..n |->
                  decode_point(SubSeq(read, (k - 1) * TOUCHPOINT_ENTRY_LEN + 1,
                                            (k - 1) * TOUCHPOINT_ENTRY_LEN
                                                + TOUCHPOINT_ENTRY_LEN))]
    IN  SubSeq(all, 1, Min(n, MAX_NUM_TOUCHPOINTS))

\* One blocking bus transaction: issued and completed in the same step.
BlockingTransact(txn, o) ==
    /\ bus' = [bus EXCEPT ![Blocking] = Append(@, txn)]
    /\ EnvOutcome(Len(bus[Blocking]) + 1, o)
    /\ IF o = "ok" /\ txn.kind = "write_read"
       THEN \E d \in DevAfterRead(256 * txn.out[1] + txn.out[2], txn.len) :
                /\ dev' = d
                /\ buf' = [buf EXCEPT ![Blocking] =
                              DevBytes(d, 256 * txn.out[1] + txn.out[2], txn.len)]
       ELSE dev' = (IF txn.kind = "write" THEN DevAfterWrite(txn, o) ELSE dev)
            /\ buf' = buf

BlockingGoto(label) ==
    /\ pc' = [pc EXCEPT ![Blocking] = label]
    /\ result' = result

BlockingReturn(r) ==
    /\ pc' = [pc EXCEPT ![Blocking] = "done"]
    /\ result' = [result EXCEPT ![Blocking] = r]

BlockingPanic ==
    /\ pc' = [pc EXCEPT ![Blocking] = "panic"]
    /\ result' = result

\* init: self.write(i2c, GT911_COMMAND_REG, 0)?
BlockingInitCommand ==
    /\ op = "init" /\ pc[Blocking] = "write_cmd"
    /\ \E o \in Outcomes :
          /\ BlockingTransact(Blocking_write(GT911_COMMAND_REG, 0), o)
          /\ IF o = "ok" THEN BlockingGoto("read_id")
             ELSE BlockingReturn(Blocking_map_err(o))
    /\ UNCHANGED <<i2c_addr, op, num, val, probe, scratch, hist, sched>>

\* init: read the product id and check it
BlockingInitProductId ==
    /\ op = "init" /\ pc[Blocking] = "read_id"
    /\ \E o \in Outcomes :
          /\ BlockingTransact(Blocking_read(GT911_PRODUCT_ID_REG, 4), o)
          /\ IF o # "ok" THEN BlockingReturn(Blocking_map_err(o))
             ELSE IF Blocking_product_id_ok(buf'[Blocking])
                  THEN BlockingGoto("write_clear")
                  ELSE BlockingReturn(ErrR("UnexpectedProductId", "none"))
    /\ UNCHANGED <<i2c_addr, op, num, val, probe, scratch, hist, sched>>

\* init: clear status register, Ok(())
BlockingInitClear ==
    /\ op = "init" /\ pc[Blocking] = "write_clear"
    /\ \E o \in Outcomes :
          /\ BlockingTransact(Blocking_clear_status, o)
          /\ IF o = "ok" THEN BlockingReturn(OkR(<<>>))
             ELSE BlockingReturn(Blocking_map_err(o))
    /\ UNCHANGED <<i2c_addr, op, num, val, probe, scratch, hist, sched>>

\* get_touch: let num_touch_points = self.get_num_touch_points(i2c)?
\* and the branch on num_touch_points > 0
BlockingGetTouchPoll ==
    /\ op = "get_touch" /\ pc[Blocking] = "read_status"
    /\ \E o \in Outcomes :
          /\ BlockingTransact(Blocking_read(GT911_TOUCHPOINT_STATUS_REG, 1), o)
          /\ IF o # "ok"
             THEN BlockingReturn(Blocking_map_err(o)) /\ UNCHANGED <<num, val>>
             ELSE LET r == Blocking_num_touch_points(buf'[Blocking][1])
                  IN  IF r.tag = "Err"
                      THEN BlockingReturn(r) /\ UNCHANGED <<num, val>>
                      ELSE /\ num' = [num EXCEPT ![Blocking] = r.val]
                           /\ val' = [val EXCEPT ![Blocking] = <<>>]
                           /\ IF r.val > 0 THEN BlockingGoto("read_points")
                              ELSE BlockingGoto("write_clear")
    /\ UNCHANGED <<i2c_addr, op, probe, scratch, hist, sched>>

\* get_touch: read one record and decode it
BlockingGetTouchPoint ==
    /\ op = "get_touch" /\ pc[Blocking] = "read_points"
    /\ \E o \in Outcomes :
          /\ BlockingTransact(
                 Blocking_read(GT911_TOUCHPOINT_1_REG,
                               Blocking_touch_read_len(num[Blocking])), o)
          /\ IF o # "ok"
             THEN BlockingReturn(Blocking_map_err(o)) /\ val' = val
             ELSE /\ val' = [val EXCEPT ![Blocking] = <<decode_point(buf'[Blocking])>>]
                  /\ BlockingGoto("write_clear")
    /\ UNCHANGED <<i2c_addr, op, num, probe, scratch, hist, sched>>

\* get_touch: clear status register, Ok(point)
BlockingGetTouchClear ==
    /\ op = "get_touch" /\ pc[Blocking] = "write_clear"
    /\ \E o \in Outcomes :
          /\ BlockingTransact(Blocking_clear_status, o)
          /\ IF o = "ok" THEN BlockingReturn(OkR(val[Blocking]))
             ELSE BlockingReturn(Blocking_map_err(o))
    /\ UNCHANGED <<i2c_addr, op, num, val, probe, scratch, hist, sched>>

\* get_multi_touch: the status poll, the branch and the assertion
BlockingGetMultiTouchPoll ==
    /\ op = "get_multi_touch" /\ pc[Blocking] = "read_status"
    /\ \E o \in Outcomes :
          /\ BlockingTransact(Blocking_read(GT911_TOUCHPOINT_STATUS_REG, 1), o)
          /\ IF o # "ok"
             THEN BlockingReturn(Blocking_map_err(o)) /\ UNCHANGED <<num, val>>
             ELSE LET r == Blocking_num_touch_points(buf'[Blocking][1])
                  IN  IF r.tag = "Err"
                      THEN BlockingReturn(r) /\ UNCHANGED <<num, val>>
                      ELSE /\ num' = [num EXCEPT ![Blocking] = r.val]
                           /\ val' = [val EXCEPT ![Blocking] = <<>>]
                           /\ IF r.val > 0
                              THEN IF Blocking_assert_count(r.val)
                                   THEN BlockingGoto("read_points")
                                   ELSE BlockingPanic
                              ELSE BlockingGoto("write_clear")
    /\ UNCHANGED <<i2c_addr, op, probe, scratch, hist, sched>>

\* get_multi_touch: read num_touch_points records in one transaction, decode
BlockingGetMultiTouchPoints ==
    /\ op = "get_multi_touch" /\ pc[Blocking] = "read_points"
    /\ IF ~Blocking_slice_in_bounds(Blocking_multi_read_len(num[Blocking]))
       THEN BlockingPanic /\ UNCHANGED <<bus, buf, val, outcomes, dev>>
       ELSE \E o \in Outcomes :
          /\ BlockingTransact(
                 Blocking_read(GT911_TOUCHPOINT_1_REG,
                               Blocking_multi_read_len(num[Blocking])), o)
          /\ IF o # "ok"
             THEN BlockingReturn(Blocking_map_err(o)) /\ val' = val
             ELSE /\ val' = [val EXCEPT ![Blocking] =
                                Blocking_decode_points(buf'[Blocking], num[Blocking])]
                  /\ BlockingGoto("write_clear")
    /\ UNCHANGED <<i2c_addr, op, num, probe, scratch, hist, sched>>

\* get_multi_touch: clear status register, Ok(points)
BlockingGetMultiTouchClear ==
    /\ op = "get_multi_touch" /\ pc[Blocking] = "write_clear"
    /\ \E o \in Outcomes :
          /\ BlockingTransact(Blocking_clear_status, o)
          /\ IF o = "ok" THEN BlockingReturn(OkR(val[Blocking]))
             ELSE BlockingReturn(Blocking_map_err(o))
    /\ UNCHANGED <<i2c_addr, op, num, val, probe, scratch, hist, sched>>

----------------------------------------------------------------------------
(* Gt911 (async): every bus transaction is a suspension point, so each one   *)
(* takes two steps: the transaction is issued and the task suspends, then    *)
(* the transaction completes and the task runs on to the next transaction.   *)

Async_write(register, value) ==
    LET r == to_be_bytes(register)
    IN  [kind |-> "write", addr |-> i2c_addr[Async],
         out |-> <<r[1], r[2], value>>, len |-> 0]

Async_read(register, len) ==
    [kind |-> "write_read", addr |-> i2c_addr[Async],
     out |-> to_be_bytes(register), len |-> len]

\* mutant: the clear goes to the command register, as the first write of init
Async_clear_status_to_command == Async_write(GT911_COMMAND_REG, 0)

\* self.write(i2c, GT911_TOUCHPOINT_STATUS_REG, 0): the status-clear write
Async_clear_status == Async_write(GT911_TOUCHPOINT_STATUS_REG, 0)

\* .map_err(Error::I2C)
Async_map_err(e) == ErrR("I2C", e)

\* the match on str::from_utf8(&read): TRUE when init goes on to the clear
Async_product_id_ok(read) ==
    IF from_utf8_ok(read)
    THEN ~(read # ProductIdStr)
    ELSE FALSE

\* mutant: the count is taken from three bits only
Async_num_touch_points_3bits(status) ==
    IF BitAnd(status, 128) > 0 THEN OkR(BitAnd(status, 7)) ELSE ErrR("NotReady", "none")

\* get_num_touch_points, after the read: status byte to Result<usize, _>
Async_num_touch_points(status) ==
    LET ready == BitAnd(status, 128) > 0
        num_touch_points == BitAnd(status, 15)
    IN  IF ready THEN OkR(num_touch_points) ELSE ErrR("NotReady", "none")

\* assert!(num_touch_points <= MAX_NUM_TOUCHPOINTS)
Async_assert_count(n) == n <= MAX_NUM_TOUCHPOINTS

\* mutant: get_touch reads every reported record
Async_touch_read_len_all(n) == TOUCHPOINT_ENTRY_LEN * n

\* the length of the slice handed to read by get_touch / get_multi_touch
Async_touch_read_len(n) == TOUCHPOINT_ENTRY_LEN
Async_multi_read_len(n) == TOUCHPOINT_ENTRY_LEN * n

\* read[..len] of the array [0u8; TOUCHPOINT_ENTRY_LEN * MAX_NUM_TOUCHPOINTS]:
\* a slice past the end of the array panics
Async_slice_in_bounds(len) == len <= TOUCHPOINT_ENTRY_LEN * MAX_NUM_TOUCHPOINTS

\* the for loop of get_multi_touch
Async_decode_points(read, n) ==
    LET all == [k \in 1..n |->
                  decode_point(SubSeq(read, (k - 1) * TOUCHPOINT_ENTRY_LEN + 1,
                                            (k - 1) * TOUCHPOINT_ENTRY_LEN
                                                + TOUCHPOINT_ENTRY_LEN))]
    IN  SubSeq(all, 1, Min(n, MAX_NUM_TOUCHPOINTS))

\* The task hands txn to the bus and suspends at the .await.
AsyncIssue(txn, label) ==
    /\ bus' = [bus EXCEPT ![Async] = Append(@, txn)]
    /\ pc' = [pc EXCEPT ![Async] = label]
    /\ UNCHANGED <<i2c_addr, op, buf, num, val, result, outcomes, dev, probe, scratch, hist, sched>>

\* The transaction in flight completes with outcome o and the task resumes.
AsyncComplete(o) ==
    LET k == Len(bus[Async])
        txn == bus[Async][k]
    IN  /\ bus' = bus
        /\ EnvOutcome(k, o)
        /\ IF o = "ok" /\ txn.kind = "write_read"
           THEN \E d \in DevAfterRead(256 * txn.out[1] + txn.out[2], txn.len) :
                    /\ dev' = d
                    /\ buf' = [buf EXCEPT ![Async] =
                                  DevBytes(d, 256 * txn.out[1] + txn.out[2], txn.len)]
           ELSE dev' = (IF txn.kind = "write" THEN DevAfterWrite(txn, o) ELSE dev)
                /\ buf' = buf

AsyncGoto(label) ==
    /\ pc' = [pc EXCEPT ![Async] = label]
    /\ result' = result

AsyncReturn(r) ==
    /\ pc' = [pc EXCEPT ![Async] = "done"]
    /\ result' = [result EXCEPT ![Async] = r]

AsyncPanic ==
    /\ pc' = [pc EXCEPT ![Async] = "panic"]
    /\ result' = result

\* init: self.write(i2c, GT911_COMMAND_REG, 0).await?
AsyncInitCommandIssue ==
    /\ op = "init" /\ pc[Async] = "write_cmd"
    /\ AsyncIssue(Async_write(GT911_COMMAND_REG, 0), "await_cmd")

AsyncInitCommandResume ==
    /\ op = "init" /\ pc[Async] = "await_cmd"
    /\ \E o \in Outcomes :
          /\ AsyncComplete(o)
          /\ IF o = "ok" THEN AsyncGoto("read_id")
             ELSE AsyncReturn(Async_map_err(o))
    /\ UNCHANGED <<i2c_addr, op, num, val, probe, scratch, hist, sched>>

\* init: read the product id and check it
AsyncInitProductIdIssue ==
    /\ op = "init" /\ pc[Async] = "read_id"
    /\ AsyncIssue(Async_read(GT911_PRODUCT_ID_REG, 4), "await_id")

AsyncInitProductIdResume ==
    /\ op = "init" /\ pc[Async] = "await_id"
    /\ \E o \in Outcomes :
          /\ AsyncComplete(o)
          /\ IF o # "ok" THEN AsyncReturn(Async_map_err(o))
             ELSE IF Async_product_id_ok(buf'[Async])
                  THEN AsyncGoto("write_clear")
                  ELSE AsyncReturn(ErrR("UnexpectedProductId", "none"))
    /\ UNCHANGED <<i2c_addr, op, num, val, probe, scratch, hist, sched>>

\* init: clear status register, Ok(())
AsyncInitClearIssue ==
    /\ op = "init" /\ pc[Async] = "write_clear"
    /\ AsyncIssue(Async_clear_status, "await_clear")

AsyncInitClearResume ==
    /\ op = "init" /\ pc[Async] = "await_clear"
    /\ \E o \in Outcomes :
          /\ AsyncComplete(o)
          /\ IF o = "ok" THEN AsyncReturn(OkR(<<>>))
             ELSE AsyncReturn(Async_map_err(o))
    /\ UNCHANGED <<i2c_addr, op, num, val, probe, scratch, hist, sched>>

\* get_touch: self.get_num_touch_points(i2c).await? and the branch
AsyncGetTouchPollIssue ==
    /\ op = "get_touch" /\ pc[Async] = "read_status"
    /\ AsyncIssue(Async_read(GT911_TOUCHPOINT_STATUS_REG, 1), "await_status")

AsyncGetTouchPollResume ==
    /\ op = "get_touch" /\ pc[Async] = "await_status"
    /\ \E o \in Outcomes :
          /\ AsyncComplete(o)
          /\ IF o # "ok"
             THEN AsyncReturn(Async_map_err(o)) /\ UNCHANGED <<num, val>>
             ELSE LET r == Async_num_touch_points(buf'[Async][1])
                  IN  IF r.tag = "Err"
                      THEN AsyncReturn(r) /\ UNCHANGED <<num, val>>
                      ELSE /\ num' = [num EXCEPT ![Async] = r.val]
                           /\ val' = [val EXCEPT ![Async] = <<>>]
                           /\ IF r.val > 0 THEN AsyncGoto("read_points")
                              ELSE AsyncGoto("write_clear")
    /\ UNCHANGED <<i2c_addr, op, probe, scratch, hist, sched>>

\* get_touch: read one record and decode it
AsyncGetTouchPointIssue ==
    /\ op = "get_touch" /\ pc[Async] = "read_points"
    /\ AsyncIssue(Async_read(GT911_TOUCHPOINT_1_REG, Async_touch_read_len(num[Async])),
                  "await_points")

AsyncGetTouchPointResume ==
    /\ op = "get_touch" /\ pc[Async] = "await_points"
    /\ \E o \in Outcomes :
          /\ AsyncComplete(o)
          /\ IF o # "ok"
             THEN AsyncReturn(Async_map_err(o)) /\ val' = val
             ELSE /\ val' = [val EXCEPT ![Async] = <<decode_point(buf'[Async])>>]
                  /\ AsyncGoto("write_clear")
    /\ UNCHANGED <<i2c_addr, op, num, probe, scratch, hist, sched>>

\* get_touch: clear status register, Ok(point)
AsyncGetTouchClearIssue ==
    /\ op = "get_touch" /\ pc[Async] = "write_clear"
    /\ AsyncIssue(Async_clear_status, "await_clear")

AsyncGetTouchClearResume ==
    /\ op = "get_touch" /\ pc[Async] = "await_clear"
    /\ \E o \in Outcomes :
          /\ AsyncComplete(o)
          /\ IF o = "ok" THEN AsyncReturn(OkR(val[Async]))
             ELSE AsyncReturn(Async_map_err(o))
    /\ UNCHANGED <<i2c_addr, op, num, val, probe, scratch, hist, sched>>

\* get_multi_touch: the status poll, the branch and the assertion
AsyncGetMultiTouchPollIssue ==
    /\ op = "get_multi_touch" /\ pc[Async] = "read_status"
    /\ AsyncIssue(Async_read(GT911_TOUCHPOINT_STATUS_REG, 1), "await_status")

AsyncGetMultiTouchPollResume ==
    /\ op = "get_multi_touch" /\ pc[Async] = "await_status"
    /\ \E o \in Outcomes :
          /\ AsyncComplete(o)
          /\ IF o # "ok"
             THEN AsyncReturn(Async_map_err(o)) /\ UNCHANGED <<num, val>>
             ELSE LET r == Async_num_touch_points(buf'[Async][1])
                  IN  IF r.tag = "Err"
                      THEN AsyncReturn(r) /\ UNCHANGED <<num, val>>
                      ELSE /\ num' = [num EXCEPT ![Async] = r.val]
                           /\ val' = [val EXCEPT ![Async] = <<>>]
                           /\ IF r.val > 0
                              THEN IF Async_assert_count(r.val)
                                   THEN AsyncGoto("read_points")
                                   ELSE AsyncPanic
                              ELSE AsyncGoto("write_clear")
    /\ UNCHANGED <<i2c_addr, op, probe, scratch, hist, sched>>

\* get_multi_touch: read num_touch_points records in one transaction, decode
AsyncGetMultiTouchPointsIssue ==
    /\ op = "get_multi_touch" /\ pc[Async] = "read_points"
    /\ IF ~Async_slice_in_bounds(Async_multi_read_len(num[Async]))
       THEN AsyncPanic
            /\ UNCHANGED <<i2c_addr, op, bus, buf, num, val, outcomes, dev, probe, scratch, hist, sched>>
       ELSE AsyncIssue(Async_read(GT911_TOUCHPOINT_1_REG,
                                  Async_multi_read_len(num[Async])),
                       "await_points")

AsyncGetMultiTouchPointsResume ==
    /\ op = "get_multi_touch" /\ pc[Async] = "await_points"
    /\ \E o \in Outcomes :
          /\ AsyncComplete(o)
          /\ IF o # "ok"
             THEN AsyncReturn(Async_map_err(o)) /\ val' = val
             ELSE /\ val' = [val EXCEPT ![Async] =
                                Async_decode_points(buf'[Async], num[Async])]
                  /\ AsyncGoto("write_clear")
    /\ UNCHANGED <<i2c_addr, op, num, probe, scratch, hist, sched>>

\* get_multi_touch: clear status register, Ok(points)
AsyncGetMultiTouchClearIssue ==
    /\ op = "get_multi_touch" /\ pc[Async] = "write_clear"
    /\ AsyncIssue(Async_clear_status, "await_clear")

AsyncGetMultiTouchClearResume ==
    /\ op = "get_multi_touch" /\ pc[Async] = "await_clear"
    /\ \E o \in Outcomes :
          /\ AsyncComplete(o)
          /\ IF o = "ok" THEN AsyncReturn(OkR(val[Async]))
             ELSE AsyncReturn(Async_map_err(o))
    /\ UNCHANGED <<i2c_addr, op, num, val, probe, scratch, hist, sched>>

----------------------------------------------------------------------------
(* The caller *)

NoProbe == [track_id |-> 0, x |-> 0, y |-> 0, area |-> 0, reserved |-> 0,
            record |-> <<>>, out |-> <<>>]

FirstLabel(o) == IF o = "init" THEN "write_cmd" ELSE "read_status"

\* let mut buf = [0u8; gt911::GET_TOUCH_BUF_SIZE]: the 40 bytes (5 points of
\* 8 bytes) the caller of the async example sets aside
NewScratch == Zeros(TOUCHPOINT_ENTRY_LEN * MAX_NUM_TOUCHPOINTS)

\* what a handle was constructed with, and whether init was called before
NewHist(a) == [addr |-> a, init_before |-> FALSE]

\* the state of one call: what a suspended future keeps
IdleCall == [op |-> "none", pc |-> "idle", bus |-> <<>>, buf |-> <<>>, num |-> 0,
             val |-> <<>>, result |-> Pending, outcomes |-> <<>>, dev |-> DevUnread]

\* one task runs, the other waits; no executor outside SpecTasks
NoSched == [current |-> "none", parked |-> IdleCall]

\* Both handles are constructed with the same address: Default or new(addr).
Init ==
    /\ \E a \in Addrs : i2c_addr = [c \in Ctrl |-> a] /\ hist = NewHist(a)
    /\ scratch = NewScratch
    /\ sched = NoSched
    /\ op = "none"
    /\ pc = [c \in Ctrl |-> "idle"]
    /\ bus = [c \in Ctrl |-> <<>>]
    /\ buf = [c \in Ctrl |-> <<>>]
    /\ num = [c \in Ctrl |-> 0]
    /\ val = [c \in Ctrl |-> <<>>]
    /\ result = [c \in Ctrl |-> Pending]
    /\ outcomes = <<>>
    /\ dev = DevUnread
    /\ probe = NoProbe

\* The caller calls operation o on both controllers once the previous call
\* has returned on both; a panic ends the program.
Call(o) ==
    /\ \A c \in Ctrl : pc[c] \in {"idle", "done"}
    /\ op' = o
    /\ pc' = [c \in Ctrl |-> FirstLabel(o)]
    /\ bus' = [c \in Ctrl |-> <<>>]
    /\ buf' = [c \in Ctrl |-> <<>>]
    /\ num' = [c \in Ctrl |-> 0]
    /\ val' = [c \in Ctrl |-> <<>>]
    /\ result' = [c \in Ctrl |-> Pending]
    /\ outcomes' = <<>>
    /\ dev' = DevUnread
    /\ hist' = [hist EXCEPT !.init_before = @ \/ op = "init"]
    /\ UNCHANGED <<i2c_addr, probe, scratch, sched>>

Next ==
    \/ \E o \in Ops : Call(o)
    \/ BlockingInitCommand
    \/ BlockingInitProductId
    \/ BlockingInitClear
    \/ BlockingGetTouchPoll
    \/ BlockingGetTouchPoint
    \/ BlockingGetTouchClear
    \/ BlockingGetMultiTouchPoll
    \/ BlockingGetMultiTouchPoints
    \/ BlockingGetMultiTouchClear
    \/ AsyncInitCommandIssue
    \/ AsyncInitCommandResume
    \/ AsyncInitProductIdIssue
    \/ AsyncInitProductIdResume
    \/ AsyncInitClearIssue
    \/ AsyncInitClearResume
    \/ AsyncGetTouchPollIssue
    \/ AsyncGetTouchPollResume
    \/ AsyncGetTouchPointIssue
    \/ AsyncGetTouchPointResume
    \/ AsyncGetTouchClearIssue
    \/ AsyncGetTouchClearResume
    \/ AsyncGetMultiTouchPollIssue
    \/ AsyncGetMultiTouchPollResume
    \/ AsyncGetMultiTouchPointsIssue
    \/ AsyncGetMultiTouchPointsResume
    \/ AsyncGetMultiTouchClearIssue
    \/ AsyncGetMultiTouchClearResume

Spec == Init /\ [][Next]_vars

----------------------------------------------------------------------------
(* decode_point on its own: a record is built from chosen fields and decoded *)

TrackIds == {0, 1, 255}
Coords == {0, 1, 255, 256, 4660, 65535}
ReservedBytes == {0, 255}

\* a record as the device lays it out: track id, x, y, area in little-endian
\* order, one reserved byte
Encode(track_id, x, y, area, reserved) ==
    << track_id, x % 256, x \div 256, y % 256, y \div 256,
       area % 256, area \div 256, reserved >>

InitDecode ==
    /\ i2c_addr = [c \in Ctrl |-> GT911_I2C_ADDR_BA]
    /\ hist = NewHist(GT911_I2C_ADDR_BA)
    /\ scratch = NewScratch
    /\ sched = NoSched
    /\ op = "none"
    /\ pc = [c \in Ctrl |-> "idle"]
    /\ bus = [c \in Ctrl |-> <<>>]
    /\ buf = [c \in Ctrl |-> <<>>]
    /\ num = [c \in Ctrl |-> 0]
    /\ val = [c \in Ctrl |-> <<>>]
    /\ result = [c \in Ctrl |-> Pending]
    /\ outcomes = <<>>
    /\ dev = DevUnread
    /\ \E t \in TrackIds, x \in Coords, y \in Coords, a \in Coords, r \in ReservedBytes :
          probe = [track_id |-> t, x |-> x, y |-> y, area |-> a, reserved |-> r,
                   record |-> Encode(t, x, y, a, r), out |-> <<>>]

DecodeRecord ==
    /\ probe.out = <<>>
    /\ probe' = [probe EXCEPT !.out = <<decode_point(probe.record)>>]
    /\ UNCHANGED <<i2c_addr, op, pc, bus, buf, num, val, result, outcomes, dev,
                   scratch, hist, sched>>

NextDecode == DecodeRecord

SpecDecode == InitDecode /\ [][NextDecode]_vars

----------------------------------------------------------------------------
(* Vocabulary of the properties *)

TouchOp == op \in {"get_touch", "get_multi_touch"}
AwaitLabels == {"await_cmd", "await_id", "await_status", "await_points", "await_clear"}
Returned(c) == pc[c] = "done"
Panicked(c) == pc[c] = "panic"
Ended(c) == Returned(c) \/ Panicked(c)

\* the k-th transaction of controller c has completed
Completed(c, k) == k <= Len(bus[c]) /\ (k < Len(bus[c]) \/ pc[c] \notin AwaitLabels)
Failed(c, k) == Completed(c, k) /\ outcomes[k] # "ok"
FaultFree(c) == \A k \in 1..Len(bus[c]) : Completed(c, k) /\ outcomes[k] = "ok"

\* controller c has read the status register successfully
StatusRead(c) == TouchOp /\ Completed(c, 1) /\ outcomes[1] = "ok"
ReadyFlag == dev.status >= 128
Count == dev.status % 16

\* the transactions on the wire, byte by byte: 0x814E is 129, 78; 0x814F is 129, 79
StatusReadTxn(c) ==
    [kind |-> "write_read", addr |-> i2c_addr[c], out |-> <<129, 78>>, len |-> 1]
PointReadTxn(c, len) ==
    [kind |-> "write_read", addr |-> i2c_addr[c], out |-> <<129, 79>>, len |-> len]
ClearTxn(c) ==
    [kind |-> "write", addr |-> i2c_addr[c], out |-> <<129, 78, 0>>, len |-> 0]
IsPointRead(t) == t.kind = "write_read" /\ t.out = <<129, 79>>

ClearIssued(c) == \E k \in 1..Len(bus[c]) : bus[c][k] = ClearTxn(c)

\* the fields of an 8-byte record, written out
ExpectedPoint(r) ==
    [track_id |-> r[1], x |-> r[2] + 256 * r[3], y |-> r[4] + 256 * r[5],
     area |-> r[6] + 256 * r[7]]

----------------------------------------------------------------------------
(* C1 *)

\* C1, as claimed: in get_touch and get_multi_touch, a call that read the
\* status register successfully with the ready flag set has issued the
\* status-clear write by the time it returns, whatever happened in between.
C1_ClearWheneverReady ==
    \A c \in Ctrl : StatusRead(c) /\ ReadyFlag /\ Returned(c) => ClearIssued(c)

\* C1, amended: a call that read the status register successfully with the
\* ready flag set and has ended has issued the status-clear write, as its last
\* transaction, exactly when its point-record read (if any) did not fail and
\* it did not panic on the count; this covers every count, zero included.
C1_ClearUnlessPointReadFails ==
    \A c \in Ctrl :
        StatusRead(c) /\ ReadyFlag /\ Ended(c) =>
            /\ ClearIssued(c) <=> (~Failed(c, 2) \/ Count = 0) /\ ~Panicked(c)
            /\ ClearIssued(c) => bus[c][Len(bus[c])] = ClearTxn(c)
            /\ Failed(c, 2) /\ Count > 0 => result[c] = ErrR("I2C", outcomes[2])

\* a ready poll that reported zero points has returned after its clear
C1_Witness ==
    \E c \in Ctrl :
        /\ StatusRead(c) /\ ReadyFlag /\ Count = 0 /\ Returned(c)
        /\ bus[c][Len(bus[c])] = ClearTxn(c)

----------------------------------------------------------------------------
(* C2 *)

\* C2: when the status byte read has bit 7 clear, whatever its low nibble,
\* get_touch and get_multi_touch return Err(NotReady) and the status read is
\* the only bus transaction of the call.
C2_NotReadyStops ==
    \A c \in Ctrl :
        StatusRead(c) /\ ~ReadyFlag =>
            /\ Returned(c)
            /\ result[c] = ErrR("NotReady", "none")
            /\ bus[c] = <<StatusReadTxn(c)>>

\* status byte 0x03: not ready, low nibble 3
C2_Witness ==
    \E c \in Ctrl :
        StatusRead(c) /\ dev.status = 3 /\ Returned(c) /\ result[c].kind = "NotReady"

----------------------------------------------------------------------------
(* C3 *)

\* C3: a fault-free get_touch that finds the ready flag set issues, when the
\* count is above 0, a status read, one 8-byte read at 0x814F and the clear,
\* and returns Some of the decoding of that record; when the count is 0 it
\* issues the status read and the clear only and returns None.
C3_GetTouch ==
    \A c \in Ctrl :
        op = "get_touch" /\ StatusRead(c) /\ ReadyFlag /\ Returned(c) /\ FaultFree(c) =>
            IF Count > 0
            THEN /\ bus[c] = <<StatusReadTxn(c), PointReadTxn(c, 8), ClearTxn(c)>>
                 /\ Len(buf[c]) = 8
                 /\ buf[c] = dev.points[1]
                 /\ result[c] = OkR(<<ExpectedPoint(buf[c])>>)
            ELSE /\ bus[c] = <<StatusReadTxn(c), ClearTxn(c)>>
                 /\ result[c] = OkR(<<>>)

\* three points reported, one read and returned
C3_Witness ==
    \E c \in Ctrl :
        /\ op = "get_touch" /\ StatusRead(c) /\ ReadyFlag /\ Count = 3
        /\ Returned(c) /\ result[c].tag = "Ok" /\ Len(result[c].val) = 1

----------------------------------------------------------------------------
(* C4 *)

\* C4: a fault-free get_multi_touch that finds the ready flag set and a count
\* n in 0..5 issues, when n > 0, a status read, one read of 8n bytes at 0x814F
\* and one clear, and returns n points, the i-th decoded from bytes 8i..8i+7;
\* when n = 0 it issues the status read and the clear and returns an empty
\* collection; no returned collection holds more than 5 points.
C4_GetMultiTouch ==
    \A c \in Ctrl :
        /\ op = "get_multi_touch" /\ StatusRead(c) /\ ReadyFlag /\ Count <= 5
              /\ Returned(c) /\ FaultFree(c) =>
            IF Count > 0
            THEN /\ bus[c] = <<StatusReadTxn(c), PointReadTxn(c, 8 * Count), ClearTxn(c)>>
                 /\ Len(buf[c]) = 8 * Count
                 /\ buf[c] = Flatten(SubSeq(dev.points, 1, Count))
                 /\ result[c].tag = "Ok"
                 /\ Len(result[c].val) = Count
                 /\ \A i \in 1..Count :
                       result[c].val[i] =
                           ExpectedPoint(SubSeq(buf[c], 8 * (i - 1) + 1, 8 * i))
            ELSE /\ bus[c] = <<StatusReadTxn(c), ClearTxn(c)>>
                 /\ result[c] = OkR(<<>>)
        /\ op = "get_multi_touch" => Len(result[c].val) <= 5

\* status byte 0x83: three different records returned in record order
C4_Witness ==
    \E c \in Ctrl :
        /\ op = "get_multi_touch" /\ StatusRead(c) /\ dev.status = 131
        /\ Returned(c) /\ result[c].tag = "Ok" /\ Len(result[c].val) = 3
        /\ result[c].val[1] # result[c].val[2]
        /\ result[c].val[2] # result[c].val[3]

----------------------------------------------------------------------------
(* C5 *)

\* C5: a fault-free init returns Ok exactly when the four bytes read from the
\* product-ID register are '9', '1', '1', NUL, and Err(UnexpectedProductId)
\* for every other four bytes, valid UTF-8 or not.
C5_InitChecksProductId ==
    \A c \in Ctrl :
        op = "init" /\ Returned(c) /\ FaultFree(c) =>
            /\ dev.id \in IdSeqs
            /\ result[c] = IF dev.id = <<57, 49, 49, 0>>
                           THEN OkR(<<>>)
                           ELSE ErrR("UnexpectedProductId", "none")

\* the bytes [0xFF, 0, 0, 0], which are not UTF-8, are refused
C5_Witness ==
    \E c \in Ctrl :
        /\ op = "init" /\ Returned(c) /\ FaultFree(c)
        /\ dev.id = <<255, 0, 0, 0>>
        /\ result[c].kind = "UnexpectedProductId"

----------------------------------------------------------------------------
(* C6 *)

\* C6: when the status byte has the ready flag set and a count of 6 to 15, no
\* read of point records issued by get_touch or get_multi_touch is longer
\* than 40 bytes, and once such a read has completed the records decoded
\* from it are exactly the bytes that were read.
C6_NoOversizedRead ==
    \A c \in Ctrl :
        StatusRead(c) /\ ReadyFlag /\ Count >= 6 =>
            \A k \in 1..Len(bus[c]) :
                IsPointRead(bus[c][k]) =>
                    /\ bus[c][k].len <= 40
                    /\ Completed(c, k) /\ outcomes[k] = "ok" =>
                           8 * Len(val[c]) = bus[c][k].len

\* status byte 0x8F: get_touch has read one record of the fifteen reported
C6_Witness ==
    \E c \in Ctrl :
        /\ op = "get_touch" /\ StatusRead(c) /\ dev.status = 143
        /\ Len(bus[c]) >= 2 /\ IsPointRead(bus[c][2])
        /\ Completed(c, 2) /\ outcomes[2] = "ok"

----------------------------------------------------------------------------
(* C7 *)

\* C7: the count the status poll hands to get_touch and get_multi_touch is
\* in 0..5 for every status byte with the ready flag set, and no call
\* returns Ok on a count outside that range.
C7_CountInRange ==
    \A c \in Ctrl :
        StatusRead(c) /\ ReadyFlag =>
            /\ num[c] \in 0..5
            /\ Returned(c) /\ result[c].tag = "Ok" => Count \in 0..5

----------------------------------------------------------------------------
(* C8 *)

\* C8: in init, get_touch and get_multi_touch, a bus transaction that fails
\* with transport error e is the last transaction of the call, which has
\* returned Err(I2C(e)) with that e.
C8_TransportErrorEndsCall ==
    \A c \in Ctrl :
        \A k \in 1..Len(bus[c]) :
            Failed(c, k) =>
                /\ k = Len(bus[c])
                /\ Returned(c)
                /\ result[c] = ErrR("I2C", outcomes[k])

\* the point read of get_touch failed with an arbitration loss
C8_Witness ==
    \E c \in Ctrl :
        /\ op = "get_touch" /\ Returned(c) /\ Len(bus[c]) = 2
        /\ outcomes[2] = "arbitration_loss"
        /\ result[c] = ErrR("I2C", "arbitration_loss")

----------------------------------------------------------------------------
(* C9 *)

\* C9: given the same address and the same device responses, the blocking
\* and the async controller issue the same bus transactions in the same
\* order, at every point of the call as far as both have got, and once both
\* calls have ended they ended the same way with the same result.
C9_SameTransactionsAndResult ==
    /\ \A k \in 1..Min(Len(bus[Blocking]), Len(bus[Async])) :
           bus[Blocking][k] = bus[Async][k]
    /\ Ended(Blocking) /\ Ended(Async) =>
           /\ bus[Blocking] = bus[Async]
           /\ pc[Blocking] = pc[Async]
           /\ result[Blocking] = result[Async]

\* both controllers returned five points from the same three transactions
C9_Witness ==
    /\ op = "get_multi_touch" /\ Returned(Blocking) /\ Returned(Async)
    /\ result[Blocking].tag = "Ok" /\ Len(result[Blocking].val) = 5
    /\ Len(bus[Async]) = 3

----------------------------------------------------------------------------
(* C10 *)

\* C10 (under SpecDecode): decoding a record yields track_id = byte 0,
\* x = byte1 + 256*byte2, y = byte3 + 256*byte4, area = byte5 + 256*byte6,
\* whatever byte 7 is, and decoding the encoding of (track_id, x, y, area)
\* gives those four fields back.
C10_DecodeRoundTrip ==
    probe.out # <<>> =>
        LET r == probe.record
            p == probe.out[1]
        IN  /\ p = ExpectedPoint(r)
            /\ p = Point(probe.track_id, probe.x, probe.y, probe.area)
            /\ \A b \in Byte : decode_point([r EXCEPT ![8] = b]) = p

\* x = 0x1234 was encoded as 0x34, 0x12 and decoded
C10_Witness ==
    /\ probe.out # <<>>
    /\ probe.x = 4660 /\ probe.record[2] = 52 /\ probe.record[3] = 18
    /\ probe.reserved = 255


----------------------------------------------------------------------------
(* C11 *)

\* the transactions of init on the wire: 0x8040 is 128, 64; 0x8140 is 129, 64
CommandTxn(c) ==
    [kind |-> "write", addr |-> i2c_addr[c], out |-> <<128, 64, 0>>, len |-> 0]
ProductIdReadTxn(c) ==
    [kind |-> "write_read", addr |-> i2c_addr[c], out |-> <<129, 64>>, len |-> 4]
InitTxns(c) == <<CommandTxn(c), ProductIdReadTxn(c), ClearTxn(c)>>

IsPrefix(s, t) == Len(s) <= Len(t) /\ s = SubSeq(t, 1, Len(s))

\* C11: an init that returns Ok has issued exactly three transactions, in
\* this order: the write of 0 to 0x8040, the 4-byte read at 0x8140, the write
\* of 0 to 0x814E; at every point of an init call the transactions issued so
\* far are a prefix of that sequence, and the clear is issued only once the
\* product-ID read has completed with the expected bytes.
C11_InitSequence ==
    \A c \in Ctrl :
        op = "init" =>
            /\ IsPrefix(bus[c], InitTxns(c))
            /\ Returned(c) /\ result[c].tag = "Ok" => bus[c] = InitTxns(c)
            /\ Len(bus[c]) = 3 =>
                   /\ Completed(c, 2) /\ outcomes[1] = "ok" /\ outcomes[2] = "ok"
                   /\ dev.id = <<57, 49, 49, 0>>

\* an init of the async controller has returned Ok
C11_Witness ==
    /\ op = "init" /\ Returned(Async) /\ result[Async] = OkR(<<>>)
    /\ Len(bus[Async]) = 3


----------------------------------------------------------------------------
(* C13 *)

\* the transactions of a get_touch / get_multi_touch call for the status byte
\* the device returned: the point read is there exactly when the count is
\* above 0, and nothing follows the status read when the flag is clear
TouchTxns(c) ==
    IF dev.status = NoStatus \/ ~ReadyFlag
    THEN <<StatusReadTxn(c)>>
    ELSE IF Count > 0
    THEN <<StatusReadTxn(c),
           PointReadTxn(c, IF op = "get_touch" THEN 8 ELSE 8 * Count),
           ClearTxn(c)>>
    ELSE <<StatusReadTxn(c), ClearTxn(c)>>

\* C13: at every point of a get_touch or get_multi_touch call the
\* transactions issued so far are a prefix of [status read, point-record read
\* (there exactly when the count is above 0), status-clear write], so the
\* clear never comes before the point read, it follows the status read
\* directly when the count is 0, and each of the three occurs at most once; a
\* call that returns Ok has issued the whole sequence.
C13_TouchSequence ==
    \A c \in Ctrl :
        TouchOp =>
            /\ IsPrefix(bus[c], TouchTxns(c))
            /\ Returned(c) /\ result[c].tag = "Ok" => bus[c] = TouchTxns(c)

\* count 0: the clear was issued right after the status read
C13_Witness ==
    \E c \in Ctrl :
        /\ op = "get_multi_touch" /\ StatusRead(c) /\ ReadyFlag /\ Count = 0
        /\ bus[c] = <<StatusReadTxn(c), ClearTxn(c)>>


----------------------------------------------------------------------------
(* C17 *)

\* C17: every register write on the bus is one write of exactly 3 bytes, the
\* register address high byte first and then the value; every register read
\* is one write-then-read transaction that writes exactly the 2 address bytes,
\* high byte first, and fills the whole buffer it was given; no other kind
\* of transaction is issued.
C17_RegisterFrames ==
    \A c \in Ctrl :
        \A k \in 1..Len(bus[c]) :
            LET t == bus[c][k]
            IN  /\ t.kind \in {"write", "write_read"}
                /\ t.kind = "write" =>
                       /\ Len(t.out) = 3 /\ t.len = 0
                       /\ t.out \in {<<128, 64, 0>>, <<129, 78, 0>>}
                /\ t.kind = "write_read" =>
                       /\ Len(t.out) = 2 /\ t.len > 0
                       /\ t.out \in {<<129, 64>>, <<129, 78>>, <<129, 79>>}
                       /\ k = Len(bus[c]) /\ Completed(c, k) /\ outcomes[k] = "ok" =>
                              Len(buf[c]) = t.len

\* a 24-byte read of three records filled a 24-byte slice
C17_Witness ==
    \E c \in Ctrl :
        /\ Len(bus[c]) = 2 /\ Completed(c, 2) /\ outcomes[2] = "ok"
        /\ bus[c][2].kind = "write_read" /\ bus[c][2].len = 24
        /\ Len(buf[c]) = 24

----------------------------------------------------------------------------
(* C18 *)

SuccessfulClear(c) ==
    \E k \in 1..Len(bus[c]) :
        bus[c][k] = ClearTxn(c) /\ Completed(c, k) /\ outcomes[k] = "ok"

\* C18: a get_touch or get_multi_touch call returns Ok exactly when its last
\* transaction is a status-clear write that succeeded; when the clear fails
\* with error e the call returns Err(I2C(e)) and no point, also when points
\* had been read and decoded; a call that returns Err has completed no
\* successful clear.
C18_OkOnlyAfterClear ==
    \A c \in Ctrl :
        TouchOp /\ Returned(c) =>
            LET n == Len(bus[c])
            IN  /\ result[c].tag \in {"Ok", "Err"}
                /\ result[c].tag = "Ok" <=>
                       bus[c][n] = ClearTxn(c) /\ outcomes[n] = "ok"
                /\ bus[c][n] = ClearTxn(c) /\ outcomes[n] # "ok" =>
                       result[c] = ErrR("I2C", outcomes[n])
                /\ result[c].tag = "Err" => ~SuccessfulClear(c) /\ result[c].val = <<>>

\* two points were decoded, the clear failed, the caller got the error only
C18_Witness ==
    \E c \in Ctrl :
        /\ op = "get_multi_touch" /\ Returned(c) /\ Len(val[c]) = 2
        /\ Len(bus[c]) = 3 /\ outcomes[3] = "nack"
        /\ result[c] = ErrR("I2C", "nack")

----------------------------------------------------------------------------
(* C19 *)

IsStatusWrite(t) == t.kind = "write" /\ t.out[1] = 129 /\ t.out[2] = 78

\* C19: an init that fails with UnexpectedProductId, or with a transport
\* error on the command write or on the product-ID read, has issued no write
\* to the status register 0x814E; init writes to it only after the
\* product-ID read has completed with the expected bytes.
C19_FailedInitDoesNotClear ==
    \A c \in Ctrl :
        op = "init" =>
            /\ Returned(c) /\ ( \/ result[c].kind = "UnexpectedProductId"
                               \/ Failed(c, 1)
                               \/ Failed(c, 2) ) =>
                   \A k \in 1..Len(bus[c]) : ~IsStatusWrite(bus[c][k])
            /\ (\E k \in 1..Len(bus[c]) : IsStatusWrite(bus[c][k])) =>
                   /\ Completed(c, 2) /\ outcomes[1] = "ok" /\ outcomes[2] = "ok"
                   /\ dev.id = <<57, 49, 49, 0>>

\* the id read "9110": init failed after two transactions
C19_Witness ==
    \E c \in Ctrl :
        /\ op = "init" /\ Returned(c) /\ dev.id = <<57, 49, 49, 57>>
        /\ result[c].kind = "UnexpectedProductId" /\ Len(bus[c]) = 2


\* ---------------------------------------------------------------------------
\* C12
\* ---------------------------------------------------------------------------

\* the bytes the async controller has read in the call that is under way
AsyncBytesRead == buf[Async]

\* C12: every byte the async controller reads from the bus is written into
\* the buffer the caller supplies (40 bytes, 5 points of 8 bytes), the
\* controller owning no read buffer of its own: once a read of n bytes has
\* completed, the first n bytes of the caller's buffer are the bytes read.
\* The async init, get_touch and get_multi_touch take no buffer (only &self
\* and the transport) and read into arrays of their own, so the caller's
\* array of tester.rs is never written.
C12_ReadsIntoCallerBuffer ==
    /\ Len(scratch) = TOUCHPOINT_ENTRY_LEN * MAX_NUM_TOUCHPOINTS
    /\ Len(AsyncBytesRead) <= Len(scratch)
    /\ SubSeq(scratch, 1, Len(AsyncBytesRead)) = AsyncBytesRead


\* ---------------------------------------------------------------------------
\* C16
\* ---------------------------------------------------------------------------

\* The transactions of a call of operation o on a handle built with address a,
\* when no transaction fails, against the device registers d read in that call.
RefTxns(o, a, d) ==
    LET W(hi, lo) == [kind |-> "write", addr |-> a, out |-> <<hi, lo, 0>>, len |-> 0]
        R(hi, lo, n) == [kind |-> "write_read", addr |-> a, out |-> <<hi, lo>>, len |-> n]
        n == d.status % 16
    IN  IF o = "init"
        THEN <<W(128, 64), R(129, 64, 4)>>
                \o (IF d.id = <<57, 49, 49, 0>> THEN <<W(129, 78)>> ELSE <<>>)
        ELSE IF d.status < 128 \/ (o = "get_multi_touch" /\ n > 5)
        THEN <<R(129, 78, 1)>>
        ELSE <<R(129, 78, 1)>>
                \o (IF n > 0
                    THEN <<R(129, 79, IF o = "get_touch" THEN 8 ELSE 8 * n)>>
                    ELSE <<>>)
                \o <<W(129, 78)>>

\* the first transaction of the call that failed, 0 when none did
FirstFailure(o, a, outs, d) ==
    LET bad == {k \in 1..Min(Len(outs), Len(RefTxns(o, a, d))) : outs[k] # "ok"}
    IN  IF bad = {} THEN 0 ELSE CHOOSE k \in bad : \A j \in bad : k <= j

\* the call stops at its first failed transaction
RefBus(o, a, outs, d) ==
    LET k == FirstFailure(o, a, outs, d)
    IN  IF k = 0 THEN RefTxns(o, a, d) ELSE SubSeq(RefTxns(o, a, d), 1, k)

\* whether the call ends in the panic of the count assertion
RefPanics(o, a, outs, d) ==
    /\ o = "get_multi_touch"
    /\ FirstFailure(o, a, outs, d) = 0
    /\ d.status >= 128 /\ d.status % 16 > 5

\* what the call returns
RefResult(o, a, outs, d) ==
    LET k == FirstFailure(o, a, outs, d)
        n == d.status % 16
    IN  IF k # 0 THEN ErrR("I2C", outs[k])
        ELSE IF o = "init"
        THEN IF d.id = <<57, 49, 49, 0>>
             THEN OkR(<<>>)
             ELSE ErrR("UnexpectedProductId", "none")
        ELSE IF d.status < 128 THEN ErrR("NotReady", "none")
        ELSE IF n = 0 THEN OkR(<<>>)
        ELSE IF o = "get_touch" THEN OkR(<<ExpectedPoint(d.points[1])>>)
        ELSE OkR([i \in 1..n |-> ExpectedPoint(d.points[i])])

\* C16: the handle holds its bus address and nothing else: no operation
\* changes the address, every transaction of every call is addressed to the
\* address given at construction, and the transactions and the result of a
\* call that has ended are a function of the operation, that address and the
\* device's responses during the call (the outcome of each transaction and
\* the bytes read), whether or not init or any other call came before.
C16_CallIsSelfContained ==
    \A c \in Ctrl :
        /\ i2c_addr[c] = hist.addr
        /\ \A k \in 1..Len(bus[c]) : bus[c][k].addr = hist.addr
        /\ Ended(c) =>
              /\ bus[c] = RefBus(op, hist.addr, outcomes, dev)
              /\ Panicked(c) <=> RefPanics(op, hist.addr, outcomes, dev)
              /\ Returned(c) => result[c] = RefResult(op, hist.addr, outcomes, dev)

\* init called again on a handle built with another address than the
\* default: three transactions and Ok, as the first time
C16_Witness ==
    /\ op = "init" /\ hist.init_before /\ hist.addr # GT911_I2C_ADDR_BA
    /\ Returned(Blocking) /\ result[Blocking] = OkR(<<>>)
    /\ Len(bus[Blocking]) = 3
    /\ \A k \in 1..3 : bus[Blocking][k].addr = hist.addr


----------------------------------------------------------------------------
(* The polling loop of the blocking example against a device with a ready
   latch: init once, then get_touch or get_multi_touch again and again *)

\* the five touchpoint slots of the device
PollPoints == [i \in 1..MAX_NUM_TOUCHPOINTS |-> SampleRecord(((i - 1) % MaxRecs) + 1)]

\* the device with new data for n points: ready flag and count in the status
\* register, latch set
DevReady(n) ==
    [status |-> 128 + n, id |-> ProductIdStr, points |-> PollPoints, latch |-> "set"]

\* the device with nothing new: status register 0, latch clear
DevQuiet ==
    [status |-> 0, id |-> ProductIdStr, points |-> PollPoints, latch |-> "clear"]

\* the program before init; data may have arrived before the first call
InitPoll ==
    /\ i2c_addr = [c \in Ctrl |-> GT911_I2C_ADDR_BA]
    /\ hist = NewHist(GT911_I2C_ADDR_BA)
    /\ scratch = NewScratch
    /\ sched = NoSched
    /\ op = "none"
    /\ pc = [c \in Ctrl |-> "idle"]
    /\ bus = [c \in Ctrl |-> <<>>]
    /\ buf = [c \in Ctrl |-> <<>>]
    /\ num = [c \in Ctrl |-> 0]
    /\ val = [c \in Ctrl |-> <<>>]
    /\ result = [c \in Ctrl |-> Pending]
    /\ outcomes = <<>>
    /\ dev \in {DevQuiet} \cup {DevReady(n) : n \in 0..MAX_NUM_TOUCHPOINTS}
    /\ probe = NoProbe

\* touch.init(&mut i2c).unwrap() has panicked, or a poll has
CallerStopped ==
    \/ op = "init" /\ pc[Blocking] = "done" /\ result[Blocking].tag = "Err"
    \/ pc[Blocking] = "panic"

\* main: init first, then the loop; whatever a poll returns, the loop goes on
PollCall(o) ==
    /\ pc[Blocking] \in {"idle", "done"}
    /\ ~CallerStopped
    /\ o = "init" <=> op = "none"
    /\ op' = o
    /\ pc' = [pc EXCEPT ![Blocking] = FirstLabel(o)]
    /\ bus' = [c \in Ctrl |-> <<>>]
    /\ buf' = [c \in Ctrl |-> <<>>]
    /\ num' = [c \in Ctrl |-> 0]
    /\ val' = [c \in Ctrl |-> <<>>]
    /\ result' = [c \in Ctrl |-> Pending]
    /\ outcomes' = <<>>
    /\ hist' = [hist EXCEPT !.init_before = @ \/ op = "init"]
    /\ UNCHANGED <<i2c_addr, dev, probe, scratch, sched>>

\* the device: new touch data arrives, which it reports only while the latch
\* is clear; the count is in 0..5
TouchArrives ==
    /\ dev.latch = "clear"
    /\ \E n \in 0..MAX_NUM_TOUCHPOINTS : dev' = DevReady(n)
    /\ UNCHANGED <<i2c_addr, op, pc, bus, buf, num, val, result, outcomes, probe,
                   scratch, hist, sched>>

\* the steps of the blocking controller
BlockingNext ==
    \/ BlockingInitCommand
    \/ BlockingInitProductId
    \/ BlockingInitClear
    \/ BlockingGetTouchPoll
    \/ BlockingGetTouchPoint
    \/ BlockingGetTouchClear
    \/ BlockingGetMultiTouchPoll
    \/ BlockingGetMultiTouchPoints
    \/ BlockingGetMultiTouchClear

NextPoll ==
    \/ \E o \in Ops : PollCall(o)
    \/ TouchArrives
    \/ BlockingNext

\* the transaction that was just made succeeded
TxnSucceeded == outcomes' # <<>> /\ outcomes'[Len(outcomes')] = "ok"

\* The loop keeps calling and a call under way keeps running (weak fairness);
\* a transaction that is attempted again and again eventually succeeds
\* (strong fairness of the successful outcome of each transaction).
PollFairness ==
    /\ WF_vars(\E o \in Ops : PollCall(o))
    /\ WF_vars(BlockingNext)
    /\ SF_vars(BlockingInitCommand /\ TxnSucceeded)
    /\ SF_vars(BlockingInitProductId /\ TxnSucceeded)
    /\ SF_vars(BlockingInitClear /\ TxnSucceeded)
    /\ SF_vars(BlockingGetTouchPoll /\ TxnSucceeded)
    /\ SF_vars(BlockingGetTouchPoint /\ TxnSucceeded)
    /\ SF_vars(BlockingGetTouchClear /\ TxnSucceeded)
    /\ SF_vars(BlockingGetMultiTouchPoll /\ TxnSucceeded)
    /\ SF_vars(BlockingGetMultiTouchPoints /\ TxnSucceeded)
    /\ SF_vars(BlockingGetMultiTouchClear /\ TxnSucceeded)

SpecPoll == InitPoll /\ [][NextPoll]_vars /\ PollFairness

\* ---------------------------------------------------------------------------
\* C14
\* ---------------------------------------------------------------------------

LatchSet == dev.latch = "set"
LatchClear == dev.latch = "clear"

\* C14: against a device whose ready latch is set when touch data arrives, is
\* cleared only by a write of 0 to the status register and reports nothing
\* further while set, with a caller that calls init once and then polls
\* get_touch or get_multi_touch forever, a bus on which every transaction
\* eventually succeeds and a count in 0..5: whenever the latch is set, the
\* driver eventually clears it, unless init itself returned an error and the
\* caller never got to poll.
C14_LatchEventuallyCleared == LatchSet ~> (LatchClear \/ CallerStopped)

\* touch data arrived after init, a get_touch read the point and its clear
\* has cleared the latch
C14_Witness ==
    /\ op = "get_touch" /\ pc[Blocking] = "done"
    /\ result[Blocking].tag = "Ok" /\ Len(result[Blocking].val) = 1
    /\ Len(bus[Blocking]) = 3
    /\ LatchClear /\ dev.status = 0


----------------------------------------------------------------------------
(* Two tasks of a cooperative executor that use the async controller on one
   transport. The task that runs has its call in op, pc[Async], bus[Async],
   ...; the call of the task that waits is kept in sched.parked. *)

Tasks == {1, 2}

\* the call of the task that runs, as a suspended future keeps it
CurrentCall ==
    [op |-> op, pc |-> pc[Async], bus |-> bus[Async], buf |-> buf[Async],
     num |-> num[Async], val |-> val[Async], result |-> result[Async],
     outcomes |-> outcomes, dev |-> dev]

\* the future of a call is alive: it was created and has not completed
FutureAlive(call) == call.pc \notin {"idle", "done", "panic"}

\* mutant: the transport is taken by shared reference
Async_i2c_shared_borrow(other) == TRUE

\* i2c: &mut I2C in the signature of init, get_touch and get_multi_touch: the
\* future of a call borrows the transport exclusively while it is alive, so a
\* call can be made only while no other future holds the transport
Async_i2c_exclusive_borrow(other) == ~FutureAlive(other)

InitTasks ==
    /\ i2c_addr = [c \in Ctrl |-> GT911_I2C_ADDR_BA]
    /\ hist = NewHist(GT911_I2C_ADDR_BA)
    /\ scratch = NewScratch
    /\ sched = [current |-> 1, parked |-> IdleCall]
    /\ op = "none"
    /\ pc = [c \in Ctrl |-> "idle"]
    /\ bus = [c \in Ctrl |-> <<>>]
    /\ buf = [c \in Ctrl |-> <<>>]
    /\ num = [c \in Ctrl |-> 0]
    /\ val = [c \in Ctrl |-> <<>>]
    /\ result = [c \in Ctrl |-> Pending]
    /\ outcomes = <<>>
    /\ dev = DevUnread
    /\ probe = NoProbe

\* the variables of the call under way are those of call
InstallCall(call) ==
    /\ op' = call.op
    /\ pc' = [pc EXCEPT ![Async] = call.pc]
    /\ bus' = [bus EXCEPT ![Async] = call.bus]
    /\ buf' = [buf EXCEPT ![Async] = call.buf]
    /\ num' = [num EXCEPT ![Async] = call.num]
    /\ val' = [val EXCEPT ![Async] = call.val]
    /\ result' = [result EXCEPT ![Async] = call.result]
    /\ outcomes' = call.outcomes
    /\ dev' = call.dev

\* the task that runs calls operation o of the async controller
TaskCall(o) ==
    /\ pc[Async] = "idle"
    /\ Async_i2c_exclusive_borrow(sched.parked)
    /\ InstallCall([IdleCall EXCEPT !.op = o, !.pc = FirstLabel(o)])
    /\ UNCHANGED <<i2c_addr, probe, scratch, hist, sched>>

\* the call has returned and the task has taken its result
TaskFinish ==
    /\ pc[Async] = "done"
    /\ InstallCall(IdleCall)
    /\ UNCHANGED <<i2c_addr, probe, scratch, hist, sched>>

\* the task drops the future of its call at a suspension point
TaskCancel ==
    /\ pc[Async] \in AwaitLabels
    /\ InstallCall(IdleCall)
    /\ UNCHANGED <<i2c_addr, probe, scratch, hist, sched>>

\* the executor runs the other task: the task that runs is suspended at an
\* .await of its call, or between two calls
TaskSwitch ==
    /\ pc[Async] \in AwaitLabels \cup {"idle"}
    /\ sched' = [current |-> CHOOSE t \in Tasks : t # sched.current,
                 parked |-> CurrentCall]
    /\ InstallCall(sched.parked)
    /\ UNCHANGED <<i2c_addr, probe, scratch, hist>>

AsyncNext ==
    \/ AsyncInitCommandIssue
    \/ AsyncInitCommandResume
    \/ AsyncInitProductIdIssue
    \/ AsyncInitProductIdResume
    \/ AsyncInitClearIssue
    \/ AsyncInitClearResume
    \/ AsyncGetTouchPollIssue
    \/ AsyncGetTouchPollResume
    \/ AsyncGetTouchPointIssue
    \/ AsyncGetTouchPointResume
    \/ AsyncGetTouchClearIssue
    \/ AsyncGetTouchClearResume
    \/ AsyncGetMultiTouchPollIssue
    \/ AsyncGetMultiTouchPollResume
    \/ AsyncGetMultiTouchPointsIssue
    \/ AsyncGetMultiTouchPointsResume
    \/ AsyncGetMultiTouchClearIssue
    \/ AsyncGetMultiTouchClearResume

NextTasks ==
    \/ \E o \in Ops : TaskCall(o)
    \/ TaskFinish
    \/ TaskCancel
    \/ TaskSwitch
    \/ AsyncNext

SpecTasks == InitTasks /\ [][NextTasks]_vars

\* ---------------------------------------------------------------------------
\* C15
\* ---------------------------------------------------------------------------

\* a call is between its first transaction and its return
Outstanding(call) == call.bus # <<>> /\ FutureAlive(call)

====
